---- MODULE Spec2Model ----
(***************************************************************************)
(* Model of the rule engine of src/Rule_Engine/Engine.py (the five         *)
(* built-in rules, the registry ALL_RULES and run_rules, stepped one rule  *)
(* invocation and one loop iteration at a time) and of the Interface       *)
(* layer of src/Interface (validator, authorize, handler).                 *)
(*                                                                         *)
(* Specifications:                                                         *)
(*   Spec         - callers invoke run_rules on transactions, one call     *)
(*                  after the other, over the built-in registry;           *)
(*   SpecOutcomes - the combine step of run_rules (lines 208-237) started  *)
(*                  on an arbitrary sequence of RuleResult values;         *)
(*   SpecRegistry - run_rules over a registry written with any built-in    *)
(*                  rules, repeats included;                               *)
(*   SpecHandler  - handle_transaction on raw payloads;                    *)
(*   SpecConc     - several run_rules calls whose steps interleave.        *)
(***************************************************************************)
EXTENDS Integers, Sequences, FiniteSets, TLC

VARIABLES
    ALL_RULES,       \* the registry: sequence of rule names        (l.171)
    pc,              \* position of the current run_rules call
    txn,             \* the transaction of the current call
    invoked,         \* names of the rules invoked so far by this call
    results,         \* results: List[RuleResult]                   (l.206)
    k,               \* index of the `for res in results` loops (l.213, l.222)
    final_decision,  \* l.209
    final_reasons,   \* l.210
    best_score,      \* l.219
    best_severity,   \* l.220
    adopted,         \* index in results of the outcome whose l.230-232 ran last
    fault,           \* exception that left the current call, if any
    ret,             \* what the caller holds from the last returned call
    seen,            \* an earlier returned call, remembered for comparison
    handler,         \* the current handle_transaction call (Interface layer)
    frames           \* the frames of the concurrent run_rules calls

vars == <<ALL_RULES, pc, txn, invoked, results, k, final_decision,
          final_reasons, best_score, best_severity, adopted, fault, ret, seen,
          handler, frames>>

-----------------------------------------------------------------------------
(* Python values *)

None == "None"
NoExc == "NoExc"
Unbound == "<unbound>"

\* a number, None, or a value of another type (a str) in the amount field
Num(n) == [tag |-> "float", val |-> n]
PyNone == [tag |-> "NoneType", val |-> 0]
PyStr == [tag |-> "str", val |-> 0]
\* float("nan"): a float for which every ordering comparison is False
PyNaN == [tag |-> "nan", val |-> 0]

\* `a <= n`, `a > n`, `n < a` for a float a (not evaluated on None or a str)
NumLe(a, n) == a.tag = "float" /\ a.val <= n
NumLt(a, n) == a.tag = "float" /\ a.val < n
NumGt(a, n) == a.tag = "float" /\ a.val > n

MaxAmount == 100000
ReviewAmount == 50000

Amounts ==
    {Num(n) : n \in {-5, 0, 500, ReviewAmount, 75000, MaxAmount, 150000}}
        \cup {PyNone, PyStr, PyNaN}

\* TransactionRequest (the fields the engine reads), or None
Transactions ==
    [isNone : {FALSE}, amount : Amounts,
     location : {None, "IN"}, device_id : {None, "device_abc"}]
        \cup {[isNone |-> TRUE, amount |-> PyNone,
               location |-> None, device_id |-> None]}

RuleResult(name, hit, decision, reasons, severity) ==
    [name |-> name, hit |-> hit, decision |-> decision,
     reasons |-> reasons, severity |-> severity]

NoHit(name) == RuleResult(name, FALSE, None, <<>>, 0)

-----------------------------------------------------------------------------
(* The five rules.  XRaises(t) is the exception the rule's body raises on  *)
(* t (NoExc when it returns), X(t) the RuleResult it returns.              *)

AttrRaises(t) == IF t.isNone THEN "AttributeError" ELSE NoExc

\* `txn.amount is None or txn.amount <= 0`
amount_non_positive_raises(t) ==
    IF t.isNone THEN "AttributeError"
    ELSE IF t.amount.tag = "str" THEN "TypeError"
    ELSE NoExc

\* mutant: `< 0`, so that an amount of zero passes
amount_non_positive_rule_strict(t) ==
    IF t.amount.tag = "NoneType" \/ NumLt(t.amount, 0)
    THEN RuleResult("amount_non_positive", TRUE, "DECLINE",
                    <<"Transaction amount must be positive">>, 100)
    ELSE NoHit("amount_non_positive")

amount_non_positive_rule(t) ==
    IF t.amount.tag = "NoneType" \/ NumLe(t.amount, 0)
    THEN RuleResult("amount_non_positive", TRUE, "DECLINE",
                    <<"Transaction amount must be positive">>, 100)
    ELSE NoHit("amount_non_positive")

\* `txn.amount is not None and txn.amount > 100_000`
amount_compare_raises(t) ==
    IF t.isNone THEN "AttributeError"
    ELSE IF t.amount.tag = "str" THEN "TypeError"
    ELSE NoExc

\* mutant: `>= 100_000`, so that the limit itself is declined
max_amount_rule_inclusive(t) ==
    IF t.amount.tag # "NoneType" /\ t.amount.tag = "float"
                                 /\ t.amount.val >= MaxAmount
    THEN RuleResult("max_amount_limit", TRUE, "DECLINE",
                    <<"Amount exceeds maximum allowed limit (100,000)">>, 90)
    ELSE NoHit("max_amount_limit")

max_amount_rule(t) ==
    IF t.amount.tag # "NoneType" /\ NumGt(t.amount, MaxAmount)
    THEN RuleResult("max_amount_limit", TRUE, "DECLINE",
                    <<"Amount exceeds maximum allowed limit (100,000)">>, 90)
    ELSE NoHit("max_amount_limit")

\* mutant: `< 100_000`, so that the limit itself is not reviewed
high_value_review_rule_exclusive(t) ==
    IF t.amount.tag # "NoneType"
       /\ NumGt(t.amount, ReviewAmount) /\ NumLt(t.amount, MaxAmount)
    THEN RuleResult("high_value_review", TRUE, "REVIEW",
                    <<"High-value transaction requires additional scrutiny">>, 50)
    ELSE NoHit("high_value_review")

high_value_review_rule(t) ==
    IF t.amount.tag # "NoneType"
       /\ NumGt(t.amount, ReviewAmount) /\ NumLe(t.amount, MaxAmount)
    THEN RuleResult("high_value_review", TRUE, "REVIEW",
                    <<"High-value transaction requires additional scrutiny">>, 50)
    ELSE NoHit("high_value_review")

missing_location_rule(t) ==
    IF t.location = None
    THEN RuleResult("missing_location", TRUE, "REVIEW",
                    <<"Missing transaction location">>, 20)
    ELSE NoHit("missing_location")

\* mutant: the no-hit result keeps the decision of the hit branch
missing_device_rule_miss_decides(t) ==
    IF t.device_id = None
    THEN RuleResult("missing_device_id", TRUE, "REVIEW",
                    <<"Missing device identifier">>, 20)
    ELSE RuleResult("missing_device_id", FALSE, "REVIEW", <<>>, 0)

missing_device_rule(t) ==
    IF t.device_id = None
    THEN RuleResult("missing_device_id", TRUE, "REVIEW",
                    <<"Missing device identifier">>, 20)
    ELSE NoHit("missing_device_id")

BuiltinRules ==
    <<"amount_non_positive", "max_amount_limit", "high_value_review",
      "missing_location", "missing_device_id">>

\* calling the rule registered under `name`
RuleRaises(name, t) ==
    CASE name = "amount_non_positive" -> amount_non_positive_raises(t)
      [] name = "max_amount_limit"    -> amount_compare_raises(t)
      [] name = "high_value_review"   -> amount_compare_raises(t)
      [] name = "missing_location"    -> AttrRaises(t)
      [] name = "missing_device_id"   -> AttrRaises(t)

RuleApply(name, t) ==
    CASE name = "amount_non_positive" -> amount_non_positive_rule(t)
      [] name = "max_amount_limit"    -> max_amount_rule(t)
      [] name = "high_value_review"   -> high_value_review_rule(t)
      [] name = "missing_location"    -> missing_location_rule(t)
      [] name = "missing_device_id"   -> missing_device_rule(t)

-----------------------------------------------------------------------------
(* run_rules *)

DefaultReason == "No rules triggered; default APPROVE decision"

\* decision_priority = {"DECLINE": 2, "REVIEW": 1, "APPROVE": 0, None: -1}
decision_priority ==
    [d \in {"DECLINE", "REVIEW", "APPROVE", None} |->
        CASE d = "DECLINE" -> 2
          [] d = "REVIEW"  -> 1
          [] d = "APPROVE" -> 0
          [] d = None      -> -1]

\* decision_priority.get(d, -1)
PriorityGet(d) ==
    IF d \in DOMAIN decision_priority THEN decision_priority[d] ELSE -1

\* mutant: the reasons of an outcome are collected whether or not it hit
ExtendsReasons_no_hit_check(res) == res.reasons # <<>>

\* `if res.hit and res.reasons:` (an empty list is falsy)
ExtendsReasons(res) == res.hit /\ res.reasons # <<>>

\* mutant: an outcome that did not hit still takes part in the decision
Skipped_no_hit_check(res) == res.decision = None

\* `if not res.hit or res.decision is None: continue`
Skipped(res) == ~res.hit \/ res.decision = None

\* mutant: the severity is not compared at all
Adopts_ignores_severity(score, severity, bs, bsev) == score >= bs

\* mutant: severity is compared first, the priority class only on a tie
Adopts_severity_first(score, severity, bs, bsev) ==
    severity > bsev \/ (severity = bsev /\ score > bs)

\* mutant: the `score == best_score and` conjunct is lost
Adopts_or_severity(score, severity, bs, bsev) ==
    score > bs \/ severity > bsev

\* mutant: `>=` on the severity, so an equal later outcome replaces
Adopts_on_equal(score, severity, bs, bsev) ==
    score > bs \/ (score = bs /\ severity >= bsev)

\* `if score > best_score or (score == best_score and res.severity > best_severity):`
Adopts(score, severity, bs, bsev) ==
    score > bs \/ (score = bs /\ severity > bsev)

\* the body of the loop of l.213-215 on the outcome res
CollectStep(fr, res) ==
    IF ExtendsReasons(res) THEN fr \o res.reasons ELSE fr

\* mutant: the default reason is never appended
WithDefault_missing(fr) == fr

\* l.234-235: `if not final_reasons: final_reasons.append(...)`
WithDefault(fr) == IF fr = <<>> THEN Append(fr, DefaultReason) ELSE fr

\* l.210-215 run on a whole list of outcomes
RECURSIVE CollectAll(_, _)
CollectAll(rs, n) ==
    IF n = 0 THEN <<>> ELSE CollectStep(CollectAll(rs, n - 1), rs[n])

\* the body of the loop of l.222-232 on the outcome res at index idx, as a
\* function of the loop's variables
DecideStep(b, res, idx) ==
    LET score == PriorityGet(res.decision)
    IN IF ~Skipped(res) /\ Adopts(score, res.severity, b.best_score, b.best_severity)
       THEN [final_decision |-> res.decision, best_score |-> score,
             best_severity |-> res.severity, adopted |-> idx]
       ELSE b

\* l.209 and l.217-232 run on a whole list of outcomes
RECURSIVE DecideAll(_, _)
DecideAll(rs, n) ==
    IF n = 0
    THEN [final_decision |-> "APPROVE",
          best_score |-> decision_priority["APPROVE"],
          best_severity |-> -1, adopted |-> 0]
    ELSE DecideStep(DecideAll(rs, n - 1), rs[n], n)

\* mutant: the list of the previous call is used again (one list object
\* shared by the calls, as a mutable default or a module-level list is)
NewReasonList_reused == IF ret.set THEN ret.reasons ELSE <<>>

\* `final_reasons: ReasonList = []`: a new list object
NewReasonList == <<>>

\* a raw payload (dict): the required keys it holds, and the values of the
\* keys the Interface layer reads
NoRaw == [present |-> {}, amount |-> PyNone, location |-> None,
          device_id |-> None]
NoResponse == [set |-> FALSE, transaction_id |-> None, decision |-> Unbound,
               reason |-> <<>>]

\* no handle_transaction call is in progress, and no concurrent calls exist
HandlerIdle ==
    [pc |-> "idle", raw |-> NoRaw, i |-> 0,
     txn |-> CHOOSE t \in Transactions : t.isNone, transaction_id |-> None,
     decision |-> Unbound, reason |-> <<>>, err |-> NoExc,
     authorized |-> FALSE, resp |-> NoResponse]
NoFrames == <<>>

NoRet == [set |-> FALSE, decision |-> Unbound, reasons |-> <<>>]
NoSeen == [set |-> FALSE, txn |-> CHOOSE t \in Transactions : t.isNone,
           decision |-> Unbound, reasons |-> <<>>]

\* the locals of a frame of run_rules before they are bound
LocalsUnbound ==
    /\ k = 0
    /\ final_decision = Unbound
    /\ final_reasons = <<>>
    /\ best_score = 0
    /\ best_severity = 0
    /\ adopted = 0

LocalsUnbound_next ==
    /\ k' = 0
    /\ final_decision' = Unbound
    /\ final_reasons' = <<>>
    /\ best_score' = 0
    /\ best_severity' = 0
    /\ adopted' = 0

\* a caller calls run_rules(t)
Call(t) ==
    /\ pc = "idle"
    /\ pc' = "eval"
    /\ txn' = t
    /\ invoked' = <<>>
    /\ results' = <<>>
    /\ fault' = NoExc
    /\ UNCHANGED <<handler, frames>>
    /\ UNCHANGED <<ALL_RULES, k, final_decision, final_reasons, best_score,
                   best_severity, adopted, ret, seen>>

\* mutant: a rule whose name was already invoked in this call is not invoked
\* again and counts as a miss
EvalRule_dedup ==
    /\ pc = "eval"
    /\ Len(results) < Len(ALL_RULES)
    /\ LET rule == ALL_RULES[Len(results) + 1]
           exc == RuleRaises(rule, txn)
           dup == \E j \in 1..Len(invoked) : invoked[j] = rule
       IN /\ invoked' = IF dup THEN invoked ELSE Append(invoked, rule)
          /\ IF exc # NoExc
             THEN /\ pc' = "raised"
                  /\ fault' = exc
                  /\ results' = results
             ELSE /\ pc' = "eval"
                  /\ fault' = fault
                  /\ results' = Append(results, IF dup THEN NoHit(rule)
                                                ELSE RuleApply(rule, txn))
    /\ UNCHANGED <<handler, frames>>
    /\ UNCHANGED <<ALL_RULES, txn, k, final_decision, final_reasons,
                   best_score, best_severity, adopted, ret, seen>>

\* mutant: a rule fills in the location it found missing
EvalRule_fills_location ==
    /\ pc = "eval"
    /\ Len(results) < Len(ALL_RULES)
    /\ LET rule == ALL_RULES[Len(results) + 1]
           exc == RuleRaises(rule, txn)
       IN /\ invoked' = Append(invoked, rule)
          /\ IF exc # NoExc
             THEN /\ pc' = "raised"
                  /\ fault' = exc
                  /\ results' = results
                  /\ txn' = txn
             ELSE /\ pc' = "eval"
                  /\ fault' = fault
                  /\ results' = Append(results, RuleApply(rule, txn))
                  /\ txn' = IF rule = "missing_location" /\ txn.location = None
                            THEN [txn EXCEPT !.location = "UNKNOWN"]
                            ELSE txn
    /\ UNCHANGED <<handler, frames>>
    /\ UNCHANGED <<ALL_RULES, k, final_decision, final_reasons,
                   best_score, best_severity, adopted, ret, seen>>

\* mutant: the exception of a rule is caught and the rule counted as a miss
EvalRule_isolating ==
    /\ pc = "eval"
    /\ Len(results) < Len(ALL_RULES)
    /\ LET rule == ALL_RULES[Len(results) + 1]
           exc == RuleRaises(rule, txn)
       IN /\ invoked' = Append(invoked, rule)
          /\ pc' = "eval"
          /\ IF exc # NoExc
             THEN /\ fault' = exc
                  /\ results' = Append(results, NoHit(rule))
             ELSE /\ fault' = fault
                  /\ results' = Append(results, RuleApply(rule, txn))
    /\ UNCHANGED <<handler, frames>>
    /\ UNCHANGED <<ALL_RULES, txn, k, final_decision, final_reasons,
                   best_score, best_severity, adopted, ret, seen>>

\* one iteration of `[rule(txn) for rule in ALL_RULES]`; an exception raised
\* by the rule leaves the comprehension and run_rules
EvalRule ==
    /\ pc = "eval"
    /\ Len(results) < Len(ALL_RULES)
    /\ LET rule == ALL_RULES[Len(results) + 1]
           exc == RuleRaises(rule, txn)
       IN /\ invoked' = Append(invoked, rule)
          /\ IF exc # NoExc
             THEN /\ pc' = "raised"
                  /\ fault' = exc
                  /\ results' = results
             ELSE /\ pc' = "eval"
                  /\ fault' = fault
                  /\ results' = Append(results, RuleApply(rule, txn))
    /\ UNCHANGED <<handler, frames>>
    /\ UNCHANGED <<ALL_RULES, txn, k, final_decision, final_reasons,
                   best_score, best_severity, adopted, ret, seen>>

\* mutant: the evaluation stops at the first hit that suggests DECLINE
InitLocals_short_circuit ==
    /\ pc = "eval"
    /\ \/ Len(results) = Len(ALL_RULES)
       \/ /\ results # <<>>
          /\ results[Len(results)].hit
          /\ results[Len(results)].decision = "DECLINE"
    /\ final_decision' = "APPROVE"
    /\ final_reasons' = NewReasonList
    /\ k' = 1
    /\ pc' = "collect"
    /\ UNCHANGED <<handler, frames>>
    /\ UNCHANGED <<ALL_RULES, txn, invoked, results, best_score,
                   best_severity, adopted, fault, ret, seen>>

\* the comprehension is exhausted; l.209-210, and the first loop starts
InitLocals ==
    /\ pc = "eval"
    /\ Len(results) = Len(ALL_RULES)
    /\ final_decision' = "APPROVE"
    /\ final_reasons' = NewReasonList
    /\ k' = 1
    /\ pc' = "collect"
    /\ UNCHANGED <<handler, frames>>
    /\ UNCHANGED <<ALL_RULES, txn, invoked, results, best_score,
                   best_severity, adopted, fault, ret, seen>>

\* one iteration of the loop of l.213-215
CollectReasons ==
    /\ pc = "collect"
    /\ k <= Len(results)
    /\ final_reasons' = CollectStep(final_reasons, results[k])
    /\ k' = k + 1
    /\ UNCHANGED <<handler, frames>>
    /\ UNCHANGED <<ALL_RULES, pc, txn, invoked, results, final_decision,
                   best_score, best_severity, adopted, fault, ret, seen>>

\* the first loop is exhausted; l.218-220, and the second loop starts
InitBest ==
    /\ pc = "collect"
    /\ k > Len(results)
    /\ best_score' = decision_priority[final_decision]
    /\ best_severity' = -1
    /\ k' = 1
    /\ pc' = "decide"
    /\ UNCHANGED <<handler, frames>>
    /\ UNCHANGED <<ALL_RULES, txn, invoked, results, final_decision,
                   final_reasons, adopted, fault, ret, seen>>

\* one iteration of the loop of l.222-232
Decide ==
    /\ pc = "decide"
    /\ k <= Len(results)
    /\ LET b == DecideStep([final_decision |-> final_decision,
                            best_score |-> best_score,
                            best_severity |-> best_severity,
                            adopted |-> adopted], results[k], k)
       IN /\ final_decision' = b.final_decision
          /\ best_score' = b.best_score
          /\ best_severity' = b.best_severity
          /\ adopted' = b.adopted
    /\ k' = k + 1
    /\ UNCHANGED <<handler, frames>>
    /\ UNCHANGED <<ALL_RULES, pc, txn, invoked, results, final_reasons,
                   fault, ret, seen>>

\* the second loop is exhausted; l.234-235
AppendDefault ==
    /\ pc = "decide"
    /\ k > Len(results)
    /\ final_reasons' = WithDefault(final_reasons)
    /\ pc' = "done"
    /\ UNCHANGED <<handler, frames>>
    /\ UNCHANGED <<ALL_RULES, txn, invoked, results, k, final_decision,
                   best_score, best_severity, adopted, fault, ret, seen>>

\* l.237: the caller receives (final_decision, final_reasons); the frame is
\* dropped.  `remember` is only the observer's choice to keep this result.
Return(remember) ==
    /\ pc = "done"
    /\ ret' = [set |-> TRUE, decision |-> final_decision,
               reasons |-> final_reasons]
    /\ seen' = IF remember /\ ~seen.set
               THEN [set |-> TRUE, txn |-> txn, decision |-> final_decision,
                     reasons |-> final_reasons]
               ELSE seen
    /\ pc' = "idle"
    /\ LocalsUnbound_next
    /\ UNCHANGED <<handler, frames>>
    /\ UNCHANGED <<ALL_RULES, txn, invoked, results, fault>>

\* the exception of a rule reaches the caller: nothing is returned
Propagate ==
    /\ pc = "raised"
    /\ pc' = "idle"
    /\ LocalsUnbound_next
    /\ UNCHANGED <<handler, frames>>
    /\ UNCHANGED <<ALL_RULES, txn, invoked, results, fault, ret, seen>>

\* the caller mutates the reason list it was returned
Tamper ==
    /\ pc = "idle"
    /\ ret.set
    /\ ret.reasons # <<"tampered">>
    /\ ret' = [ret EXCEPT !.reasons = <<"tampered">>]
    /\ UNCHANGED <<handler, frames>>
    /\ UNCHANGED <<ALL_RULES, pc, txn, invoked, results, k, final_decision,
                   final_reasons, best_score, best_severity, adopted, fault,
                   seen>>

Init ==
    /\ ALL_RULES = BuiltinRules
    /\ pc = "idle"
    /\ txn = NoSeen.txn
    /\ invoked = <<>>
    /\ results = <<>>
    /\ LocalsUnbound
    /\ fault = NoExc
    /\ ret = NoRet
    /\ seen = NoSeen
    /\ handler = HandlerIdle
    /\ frames = NoFrames

Next ==
    \/ \E t \in Transactions : Call(t)
    \/ EvalRule
    \/ InitLocals
    \/ CollectReasons
    \/ InitBest
    \/ Decide
    \/ AppendDefault
    \/ \E remember \in BOOLEAN : Return(remember)
    \/ Propagate
    \/ Tamper

Spec == Init /\ [][Next]_vars

-----------------------------------------------------------------------------
(* SpecOutcomes: the combine step on arbitrary rule outcomes.  A registry  *)
(* of n rules has produced results[1..n]; rule i is named OutcomeNames[i]  *)
(* and its reasons are the first texts of OutcomeTexts[i].                 *)

MaxLen == 3

OutcomeNames == <<"rule_1", "rule_2", "rule_3", "rule_4", "rule_5">>

OutcomeTexts ==
    <<<<"1a", "1b">>, <<"2a", "2b">>, <<"3a", "3b">>, <<"4a", "4b">>,
      <<"5a", "5b">>>>

Decisions == {"APPROVE", "REVIEW", "DECLINE"}
Severities == {0, 1}

Texts(i, n) == SubSeq(OutcomeTexts[i], 1, n)

\* what the rule at position i of the registry may have returned: a hit
\* suggesting a decision, with or without a reason; a hit suggesting none
\* (no reason, or two); the no-hit result of the built-in rules; and a
\* no-hit result that still carries a decision and a reason
Outcomes(i) ==
    {RuleResult(OutcomeNames[i], TRUE, d, Texts(i, n), s) :
        d \in Decisions, n \in {0, 1}, s \in Severities}
      \cup {RuleResult(OutcomeNames[i], TRUE, None, Texts(i, n), 0) :
               n \in {0, 2}}
      \cup {NoHit(OutcomeNames[i]),
            RuleResult(OutcomeNames[i], FALSE, "DECLINE", Texts(i, 1), 1)}

RECURSIVE OutcomeSeqs(_)
OutcomeSeqs(n) ==
    IF n = 0 THEN {<<>>}
    ELSE {Append(r, o) : r \in OutcomeSeqs(n - 1), o \in Outcomes(n)}

InitOutcomes ==
    /\ \E n \in 1..MaxLen :
          /\ ALL_RULES = SubSeq(OutcomeNames, 1, n)
          /\ results \in OutcomeSeqs(n)
    /\ invoked = ALL_RULES
    /\ pc = "eval"
    /\ txn = NoSeen.txn
    /\ LocalsUnbound
    /\ fault = NoExc
    /\ ret = NoRet
    /\ seen = NoSeen
    /\ handler = HandlerIdle
    /\ frames = NoFrames

NextOutcomes ==
    \/ InitLocals
    \/ CollectReasons
    \/ InitBest
    \/ Decide
    \/ AppendDefault

SpecOutcomes == InitOutcomes /\ [][NextOutcomes]_vars

-----------------------------------------------------------------------------
(* Claims on the combine step (SpecOutcomes) *)

IsHit(res) == res.hit
HitIndices == {i \in 1..Len(results) : IsHit(results[i])}

\* the reasons of the hit outcomes among the first n, in registry order
RECURSIVE HitReasons(_, _)
HitReasons(rs, n) ==
    IF n = 0 THEN <<>>
    ELSE HitReasons(rs, n - 1) \o (IF IsHit(rs[n]) THEN rs[n].reasons ELSE <<>>)

\* C1: priority dominance.  When the outcomes handed to the combine step
\* contain a hit suggesting DECLINE, the final decision is DECLINE.
C1_PriorityDominance ==
    (pc = "done" /\ \E i \in HitIndices : results[i].decision = "DECLINE")
        => final_decision = "DECLINE"

\* a DECLINE hit of severity 0 followed by a REVIEW hit of higher severity
C1_Witness ==
    /\ pc = "done"
    /\ Len(results) >= 2
    /\ results[1].hit /\ results[1].decision = "DECLINE"
    /\ results[1].severity = 0
    /\ results[2].hit /\ results[2].decision = "REVIEW"
    /\ results[2].severity = 1
    /\ final_decision = "DECLINE"

\* C3 as stated: the returned reason list is exactly the concatenation, in
\* registry order, of the reasons of every hit outcome.
C3_ReasonsAreHitReasons ==
    pc = "done" => final_reasons = HitReasons(results, Len(results))

\* C3 as amended: the returned reason list is that concatenation when it is
\* not empty, and the single default reason when it is empty.
C3_ReasonCompleteness ==
    pc = "done" =>
        LET hr == HitReasons(results, Len(results))
        IN final_reasons = IF hr = <<>> THEN <<DefaultReason>> ELSE hr

\* a REVIEW hit whose decision lost to a DECLINE hit, both with reasons, and
\* a hit that carries two reasons
C3_Witness ==
    /\ pc = "done"
    /\ Len(results) = 3
    /\ results[1].hit /\ results[1].decision = "REVIEW"
    /\ results[2].hit /\ results[2].decision = "DECLINE"
    /\ results[3].hit /\ Len(results[3].reasons) = 2
    /\ final_decision = "DECLINE"
    /\ final_reasons = <<"1a", "2a", "3a", "3b">>

\* the outcomes that take part in the decision, among the first n
Eligible(n) ==
    {i \in 1..n : results[i].hit /\ results[i].decision \in Decisions}

\* C6: tie-break.  At every point of the combine loop the adopted outcome
\* is, among the outcomes of its priority class processed so far, one of
\* highest severity, and the earliest in registry order of those.
C6_TieBreak ==
    (pc \in {"decide", "done"} /\ adopted # 0) =>
        LET n == IF pc = "done" THEN Len(results) ELSE k - 1
            a == results[adopted]
        IN /\ adopted \in Eligible(n)
           /\ \A j \in Eligible(n) :
                 a.decision = results[j].decision =>
                    /\ results[j].severity <= a.severity
                    /\ (results[j].severity = a.severity => adopted <= j)

\* two hits of the same class and severity: the first stays adopted
C6_Witness ==
    /\ pc = "done"
    /\ Len(results) >= 2
    /\ results[1].hit /\ results[2].hit
    /\ results[1].decision = "REVIEW" /\ results[2].decision = "REVIEW"
    /\ results[1].severity = results[2].severity
    /\ adopted = 1

\* C7: default behaviour.  When no outcome hit, the decision is APPROVE and
\* the reason list holds the default reason alone.
C7_Default ==
    (pc = "done" /\ HitIndices = {}) =>
        /\ final_decision = "APPROVE"
        /\ final_reasons = <<DefaultReason>>

\* no outcome hit, one of them carrying a decision and a reason all the same
C7_Witness ==
    /\ pc = "done"
    /\ Len(results) >= 2
    /\ HitIndices = {}
    /\ \E i \in 1..Len(results) : results[i].decision = "DECLINE"
    /\ final_decision = "APPROVE"

SeqRange(q) == {q[i] : i \in 1..Len(q)}
Permuted(rs, p) == [i \in 1..Len(rs) |-> rs[p[i]]]

\* C8: the decision does not depend on the registration order.  Whatever
\* the order in which the registry lists the rules of these outcomes, the
\* combine step ends on the decision this run ended on, and on the same
\* reason strings in some order.
C8_OrderIndependent ==
    pc = "done" =>
        \A p \in Permutations(1..Len(results)) :
            LET rs == Permuted(results, p)
                fr == WithDefault(CollectAll(rs, Len(rs)))
            IN /\ DecideAll(rs, Len(rs)).final_decision = final_decision
               /\ Len(fr) = Len(final_reasons)
               /\ SeqRange(fr) = SeqRange(final_reasons)

\* a REVIEW hit of high severity registered after a DECLINE hit of low one
C8_Witness ==
    /\ pc = "done"
    /\ Len(results) = 3
    /\ results[1].hit /\ results[1].decision = "DECLINE"
    /\ results[1].severity = 0
    /\ results[3].hit /\ results[3].decision = "REVIEW"
    /\ results[3].severity = 1
    /\ final_reasons # <<DefaultReason>>

-----------------------------------------------------------------------------
(* Claims on run_rules over the built-in registry (Spec) *)

AmountInvalid(t) ==
    t.amount.tag = "NoneType" \/ (t.amount.tag = "float" /\ t.amount.val <= 0)
AmountPositive(t) ==
    ~t.isNone /\ t.amount.tag = "float" /\ t.amount.val > 0

NonPositiveText == "Transaction amount must be positive"
MaxAmountText == "Amount exceeds maximum allowed limit (100,000)"
HighValueText == "High-value transaction requires additional scrutiny"
MissingLocationText == "Missing transaction location"
MissingDeviceText == "Missing device identifier"

\* C2 as stated: no decision and no reason list is ever produced for a
\* transaction that is null or whose amount is missing or non-positive.
C2_NoDecisionForInvalid ==
    pc = "done" => ~(txn.isNone \/ AmountInvalid(txn))

\* C2 as amended: run_rules validates nothing.  For a transaction whose
\* amount is missing or non-positive no exception is raised, every rule is
\* invoked, and the call ends on DECLINE with the amount_non_positive text
\* as its first reason; a null transaction raises AttributeError in the
\* first rule and no decision is computed.
C2_InvalidAmountDeclined ==
    /\ (~txn.isNone /\ AmountInvalid(txn)) =>
          /\ fault = NoExc
          /\ pc # "raised"
          /\ pc = "done" =>
                /\ invoked = ALL_RULES
                /\ final_decision = "DECLINE"
                /\ final_reasons[1] = NonPositiveText
    /\ (txn.isNone /\ pc # "idle") =>
          /\ pc \in {"eval", "raised"}
          /\ pc = "raised" => fault = "AttributeError" /\ Len(invoked) = 1

\* amount = 0 with location and device set: DECLINE, one reason
C2_Witness ==
    /\ pc = "done"
    /\ ~txn.isNone /\ txn.amount = Num(0)
    /\ txn.location # None /\ txn.device_id # None
    /\ final_decision = "DECLINE"
    /\ final_reasons = <<NonPositiveText>>

\* C4 as stated: after a rule has raised, every rule of the registry that
\* does not raise on the transaction has still been invoked when the call
\* ends.
C4_OthersStillEvaluated ==
    (pc = "idle" /\ fault # NoExc) =>
        \A i \in 1..Len(ALL_RULES) :
            RuleRaises(ALL_RULES[i], txn) = NoExc =>
                \E j \in 1..Len(invoked) : invoked[j] = ALL_RULES[i]

\* C4 as amended: a rule that raises ends the call.  The raising rule is the
\* last one invoked, the rules registered after it are never invoked, no
\* decision and no reason list is computed, and the exception reaches the
\* caller in place of a result.
C4_FaultAborts ==
    fault # NoExc =>
        /\ pc \in {"raised", "idle"}
        /\ Len(invoked) = Len(results) + 1
        /\ invoked = SubSeq(ALL_RULES, 1, Len(invoked))
        /\ final_decision = Unbound
        /\ final_reasons = <<>>

\* the amount is a str: the first rule raises TypeError, and the
\* missing_location rule, which would have hit, is never reached
C4_Witness ==
    /\ pc = "raised"
    /\ fault = "TypeError"
    /\ txn.location = None
    /\ invoked = <<"amount_non_positive">>

\* C5: no short-circuit.  While the rules are evaluated, the rules invoked
\* are the first ones of the registry, once each and in registry order, and
\* nothing of the combination has started; the combination runs only after
\* every rule of the registry was invoked once, in registry order.
C5_NoShortCircuit ==
    /\ pc = "eval" =>
          /\ invoked = SubSeq(ALL_RULES, 1, Len(results))
          /\ LocalsUnbound
    /\ pc \in {"collect", "decide", "done"} =>
          /\ invoked = ALL_RULES
          /\ Len(results) = Len(ALL_RULES)
          /\ \A i \in 1..Len(results) : results[i].name = ALL_RULES[i]

\* the first rule hit with DECLINE and the last rule was still invoked, and hit
C5_Witness ==
    /\ pc = "done"
    /\ results[1].hit /\ results[1].decision = "DECLINE"
    /\ invoked = BuiltinRules
    /\ results[5].hit
    /\ final_reasons = <<NonPositiveText, MissingDeviceText>>

\* the texts of the missing-field rules that hit on t, in registry order
MissingTexts(t) ==
    (IF t.location = None THEN <<MissingLocationText>> ELSE <<>>)
        \o (IF t.device_id = None THEN <<MissingDeviceText>> ELSE <<>>)

\* C9: the decision table of the five built-in rules, for a positive amount.
C9_DecisionTable ==
    (pc = "done" /\ AmountPositive(txn)) =>
        LET a == txn.amount.val
            missing == txn.location = None \/ txn.device_id = None
        IN /\ final_decision =
                 IF a > 100000 THEN "DECLINE"
                 ELSE IF (50000 < a /\ a <= 100000) \/ missing THEN "REVIEW"
                 ELSE "APPROVE"
           /\ a > 100000 =>
                 final_reasons = <<MaxAmountText>> \o MissingTexts(txn)
           /\ (50000 < a /\ a <= 100000 /\ ~missing) =>
                 final_reasons = <<HighValueText>>
           /\ (a <= 50000 /\ txn.location = None /\ txn.device_id = None) =>
                 /\ Len(final_reasons) = 2
                 /\ final_reasons = <<MissingLocationText, MissingDeviceText>>
           /\ (a <= 50000 /\ ~missing) => final_reasons = <<DefaultReason>>

\* amount 150000 without a location: DECLINE, both texts
C9_Witness ==
    /\ pc = "done"
    /\ txn.amount = Num(150000)
    /\ txn.location = None /\ txn.device_id # None
    /\ final_decision = "DECLINE"
    /\ final_reasons = <<MaxAmountText, MissingLocationText>>

\* C10: idempotence.  A call that is about to return returns the decision
\* and the reason list that an earlier call on the same transaction
\* returned, whatever calls were made and whatever the callers did to the
\* lists they were returned in between.
C10_Idempotent ==
    (pc = "done" /\ seen.set /\ seen.txn = txn) =>
        /\ final_decision = seen.decision
        /\ final_reasons = seen.reasons

\* a second call on a remembered transaction, made after the caller has
\* overwritten the list it was returned
C10_Witness ==
    /\ pc = "done"
    /\ seen.set /\ seen.txn = txn
    /\ ret.set /\ ret.reasons = <<"tampered">>
    /\ Len(final_reasons) = 2


\* C12: no-hit purity.  Every RuleResult a built-in rule has produced is
\* either a miss with decision None and no reasons, or a hit whose decision
\* is one of APPROVE, REVIEW, DECLINE.
C12_NoHitPurity ==
    \A i \in 1..Len(results) :
        /\ ~results[i].hit =>
              results[i].decision = None /\ results[i].reasons = <<>>
        /\ results[i].hit => results[i].decision \in Decisions

\* amount None, device set: the first rule hit, the last one did not
C12_Witness ==
    /\ pc = "done"
    /\ txn.amount = PyNone /\ txn.device_id # None
    /\ results[1].hit /\ ~results[2].hit /\ ~results[5].hit

\* C15: well-formed results.  What a call is about to return, and what a
\* caller was returned, is a decision among APPROVE, REVIEW, DECLINE and a
\* reason list that is not empty.
C15_WellFormed ==
    /\ pc = "done" =>
          final_decision \in Decisions /\ final_reasons # <<>>
    /\ ret.set => ret.decision \in Decisions /\ ret.reasons # <<>>

\* no rule hit: the call is about to return APPROVE and the default reason
C15_Witness ==
    /\ pc = "done"
    /\ txn.amount = Num(500)
    /\ \A i \in 1..Len(results) : ~results[i].hit
    /\ final_decision = "APPROVE"
    /\ Len(final_reasons) = 1

\* C16: the engine only reads.  No step changes the registry, and no step of
\* a run_rules call changes a field of the transaction it was given.
C16_ReadOnly ==
    [][ALL_RULES' = ALL_RULES /\ (pc # "idle" => txn' = txn)]_vars

\* two calls have returned, on different transactions
C16_Witness ==
    /\ pc = "idle"
    /\ ret.set /\ seen.set /\ seen.txn # txn
    /\ txn.location = None
    /\ ALL_RULES = BuiltinRules

\* C20: the three amount rules are mutually exclusive.  Of the outcomes of
\* amount_non_positive, max_amount_limit and high_value_review at most one
\* hit; amount 100000 hits high_value_review alone, amount 50000 none of
\* them, amount None amount_non_positive alone.
C20_AmountRulesExclusive ==
    Len(results) >= 3 =>
        LET hits == {i \in 1..3 : results[i].hit}
        IN /\ Cardinality(hits) <= 1
           /\ txn.amount = Num(100000) =>
                 hits = {3} /\ results[3].decision = "REVIEW"
           /\ txn.amount = Num(50000) => hits = {}
           /\ txn.amount = PyNone => hits = {1}

\* amount exactly 100000: REVIEW, from high_value_review
C20_Witness ==
    /\ pc = "done"
    /\ txn.amount = Num(100000)
    /\ results[3].hit /\ ~results[2].hit
    /\ final_decision = "REVIEW"


-----------------------------------------------------------------------------
(* Further claims on the combine step (SpecOutcomes) *)

MaxOf(S) == CHOOSE x \in S : \A y \in S : y <= x

\* C18: invariant of the decision loop.  After any prefix of the outcomes,
\* best_score is the highest priority among APPROVE and the eligible
\* outcomes seen, final_decision is the decision of that class, and once an
\* outcome was adopted best_severity is the highest severity among the
\* eligible outcomes seen of that class.
C18_LoopInvariant ==
    pc \in {"decide", "done"} =>
        LET n == IF pc = "done" THEN Len(results) ELSE k - 1
            E == Eligible(n)
            top == MaxOf({0} \cup {PriorityGet(results[j].decision) : j \in E})
        IN /\ best_score = top
           /\ final_decision \in Decisions
           /\ PriorityGet(final_decision) = top
           /\ adopted # 0 =>
                 best_severity =
                     MaxOf({results[j].severity :
                              j \in {i \in E : PriorityGet(results[i].decision) = top}})

\* REVIEW of severity 1, then DECLINE of severity 0, then REVIEW of severity
\* 1 again: the last one is not adopted
C18_Witness ==
    /\ pc = "done"
    /\ Len(results) = 3
    /\ results[1].hit /\ results[1].decision = "REVIEW" /\ results[1].severity = 1
    /\ results[2].hit /\ results[2].decision = "DECLINE" /\ results[2].severity = 0
    /\ results[3].hit /\ results[3].decision = "REVIEW" /\ results[3].severity = 1
    /\ adopted = 2
    /\ best_score = 2 /\ best_severity = 0
    /\ final_decision = "DECLINE"

-----------------------------------------------------------------------------
(* SpecRegistry: run_rules over a registry written with any rules.  The    *)
(* list literal of l.171-177 is the whole construction of the registry;    *)
(* here it holds any non-empty sequence of the built-in rules, repeated    *)
(* entries included.                                                       *)

MaxRules == 2

RECURSIVE RegistrySeqs(_)
RegistrySeqs(n) ==
    IF n = 0 THEN {<<>>}
    ELSE {Append(r, name) : r \in RegistrySeqs(n - 1),
                            name \in {BuiltinRules[i] : i \in 1..Len(BuiltinRules)}}

InitRegistry ==
    /\ ALL_RULES \in UNION {RegistrySeqs(n) : n \in 1..MaxRules}
    /\ pc = "idle"
    /\ txn = NoSeen.txn
    /\ invoked = <<>>
    /\ results = <<>>
    /\ LocalsUnbound
    /\ fault = NoExc
    /\ ret = NoRet
    /\ seen = NoSeen
    /\ handler = HandlerIdle
    /\ frames = NoFrames

\* one call after the other, until one has returned
CallUntilReturned(t) == ~ret.set /\ Call(t)

NextRegistry ==
    \/ \E t \in Transactions : CallUntilReturned(t)
    \/ EvalRule
    \/ InitLocals
    \/ CollectReasons
    \/ InitBest
    \/ Decide
    \/ AppendDefault
    \/ Return(FALSE)
    \/ Propagate

SpecRegistry == InitRegistry /\ [][NextRegistry]_vars

HasDuplicates(q) == \E i, j \in 1..Len(q) : i # j /\ q[i] = q[j]

-----------------------------------------------------------------------------
(* The Interface layer: TransactionValidator.validate, authorize_transaction *)
(* with _run_basic_rules, and handle_transaction (SpecHandler).              *)

REQUIRED_FIELDS == <<"user_id", "amount", "merchant_id", "timestamp">>

RawPayloads ==
    [present : SUBSET {REQUIRED_FIELDS[i] : i \in 1..Len(REQUIRED_FIELDS)},
     amount : Amounts, location : {None, "IN"},
     device_id : {None, "device_abc"}]

TransactionIds == {"uuid_1", "uuid_2"}

BasicMaxAmount == 100000
BasicReviewAmount == 50000

\* f"[rules] {r}"
Prefixed(r) == <<"[rules] ", r>>

\* mutant: `>= 50_000` in the review tier
run_basic_rules_inclusive(t) ==
    IF NumLe(t.amount, 0)
    THEN [decision |-> "DECLINE",
          reasons |-> <<"Invalid transaction amount (<= 0)">>]
    ELSE LET tier ==
                 IF NumGt(t.amount, BasicMaxAmount)
                 THEN [decision |-> "DECLINE",
                       reasons |-> <<"Amount exceeds maximum allowed limit">>]
                 ELSE IF t.amount.tag = "float" /\ t.amount.val >= BasicReviewAmount
                 THEN [decision |-> "REVIEW",
                       reasons |-> <<"High-value transaction requires manual review">>]
                 ELSE [decision |-> "APPROVE", reasons |-> <<>>]
             r1 == IF t.location = None
                   THEN Append(tier.reasons, "Missing transaction location")
                   ELSE tier.reasons
             r2 == IF t.device_id = None
                   THEN Append(r1, "Missing device identifier")
                   ELSE r1
         IN [decision |-> tier.decision,
             reasons |-> IF r2 = <<>> THEN <<"Passed basic rules">> ELSE r2]

\* _run_basic_rules(txn), for a txn whose amount is a float
run_basic_rules(t) ==
    IF NumLe(t.amount, 0)
    THEN [decision |-> "DECLINE",
          reasons |-> <<"Invalid transaction amount (<= 0)">>]
    ELSE LET tier ==
                 IF NumGt(t.amount, BasicMaxAmount)
                 THEN [decision |-> "DECLINE",
                       reasons |-> <<"Amount exceeds maximum allowed limit">>]
                 ELSE IF NumGt(t.amount, BasicReviewAmount)
                 THEN [decision |-> "REVIEW",
                       reasons |-> <<"High-value transaction requires manual review">>]
                 ELSE [decision |-> "APPROVE", reasons |-> <<>>]
             r1 == IF t.location = None
                   THEN Append(tier.reasons, "Missing transaction location")
                   ELSE tier.reasons
             r2 == IF t.device_id = None
                   THEN Append(r1, "Missing device identifier")
                   ELSE r1
         IN [decision |-> tier.decision,
             reasons |-> IF r2 = <<>> THEN <<"Passed basic rules">> ELSE r2]

\* authorize_transaction(transaction_id, transaction)
authorize_transaction(t) ==
    LET rr == run_basic_rules(t)
    IN [decision |-> rr.decision,
        reasons |-> [j \in 1..Len(rr.reasons) |-> Prefixed(rr.reasons[j])]]

\* run_rules(t) as a function, for a transaction no rule raises on
RunRules(t) ==
    LET rs == [j \in 1..Len(BuiltinRules) |-> RuleApply(BuiltinRules[j], t)]
    IN [decision |-> DecideAll(rs, Len(rs)).final_decision,
        reasons |-> WithDefault(CollectAll(rs, Len(rs)))]

\* handle_transaction(raw_txn) is called
HandleTransaction(raw) ==
    /\ handler.pc = "idle"
    /\ handler' = [HandlerIdle EXCEPT !.pc = "validate", !.raw = raw, !.i = 1]
    /\ UNCHANGED <<ALL_RULES, pc, txn, invoked, results, k, final_decision,
                   final_reasons, best_score, best_severity, adopted, fault,
                   ret, seen, frames>>

\* validate, l.12-14: one iteration of the loop over REQUIRED_FIELDS
CheckField ==
    /\ handler.pc = "validate"
    /\ handler.i <= Len(REQUIRED_FIELDS)
    /\ handler' =
          IF REQUIRED_FIELDS[handler.i] \in handler.raw.present
          THEN [handler EXCEPT !.i = handler.i + 1]
          ELSE [handler EXCEPT !.pc = "raised", !.err = "ValueError"]
    /\ UNCHANGED <<ALL_RULES, pc, txn, invoked, results, k, final_decision,
                   final_reasons, best_score, best_severity, adopted, fault,
                   ret, seen, frames>>

\* validate, l.16-27: the amount check and the TransactionRequest
CheckAmount ==
    /\ handler.pc = "validate"
    /\ handler.i > Len(REQUIRED_FIELDS)
    /\ LET a == handler.raw.amount
       IN handler' =
             IF a.tag \in {"NoneType", "str"}
             THEN [handler EXCEPT !.pc = "raised", !.err = "TypeError"]
             ELSE IF NumLe(a, 0)
             THEN [handler EXCEPT !.pc = "raised", !.err = "ValueError"]
             ELSE [handler EXCEPT
                     !.pc = "validated",
                     !.txn = [isNone |-> FALSE, amount |-> a,
                              location |-> handler.raw.location,
                              device_id |-> handler.raw.device_id]]
    /\ UNCHANGED <<ALL_RULES, pc, txn, invoked, results, k, final_decision,
                   final_reasons, best_score, best_severity, adopted, fault,
                   ret, seen, frames>>

\* handle_transaction, l.18: str(uuid.uuid4())
GenerateId(id) ==
    /\ handler.pc = "validated"
    /\ handler' = [handler EXCEPT !.pc = "authorize", !.transaction_id = id]
    /\ UNCHANGED <<ALL_RULES, pc, txn, invoked, results, k, final_decision,
                   final_reasons, best_score, best_severity, adopted, fault,
                   ret, seen, frames>>

\* handle_transaction, l.21-24: the call of authorize_transaction
Authorize ==
    /\ handler.pc = "authorize"
    /\ LET r == authorize_transaction(handler.txn)
       IN handler' = [handler EXCEPT !.pc = "respond", !.authorized = TRUE,
                                     !.decision = r.decision,
                                     !.reason = r.reasons]
    /\ UNCHANGED <<ALL_RULES, pc, txn, invoked, results, k, final_decision,
                   final_reasons, best_score, best_severity, adopted, fault,
                   ret, seen, frames>>

\* handle_transaction, l.27-31: the TransactionResponse is built and returned
Respond ==
    /\ handler.pc = "respond"
    /\ handler' = [handler EXCEPT
                     !.pc = "idle",
                     !.resp = [set |-> TRUE,
                               transaction_id |-> handler.transaction_id,
                               decision |-> handler.decision,
                               reason |-> handler.reason]]
    /\ UNCHANGED <<ALL_RULES, pc, txn, invoked, results, k, final_decision,
                   final_reasons, best_score, best_severity, adopted, fault,
                   ret, seen, frames>>

\* the exception of validate leaves handle_transaction
HandlerRaise ==
    /\ handler.pc = "raised"
    /\ handler' = [handler EXCEPT !.pc = "idle"]
    /\ UNCHANGED <<ALL_RULES, pc, txn, invoked, results, k, final_decision,
                   final_reasons, best_score, best_severity, adopted, fault,
                   ret, seen, frames>>

NextHandler ==
    \/ \E raw \in RawPayloads : HandleTransaction(raw)
    \/ CheckField
    \/ CheckAmount
    \/ \E id \in TransactionIds : GenerateId(id)
    \/ Authorize
    \/ Respond
    \/ HandlerRaise

SpecHandler == Init /\ [][NextHandler]_vars

-----------------------------------------------------------------------------
(* Claims on the Interface layer (SpecHandler) *)

MissingField(t) == t.location = None \/ t.device_id = None

\* C13 as stated: the decision of every response handle_transaction builds is
\* the decision run_rules returns for the validated transaction.
C13_HandlerUsesEngine ==
    handler.resp.set =>
        handler.resp.decision = RunRules(handler.txn).decision

\* C13: handle_transaction decides with _run_basic_rules, never with
\* run_rules. Its decision is the amount tier alone; it is the decision of
\* run_rules exactly when the amount is above the review threshold or neither
\* location nor device_id is missing, and otherwise it is APPROVE where
\* run_rules returns REVIEW. Its reasons are as many as those of run_rules,
\* each carrying the "[rules] " prefix.
C13_HandlerAgreement ==
    handler.resp.set =>
        LET t == handler.txn
            e == RunRules(t)
            r == handler.resp
        IN /\ r.decision = run_basic_rules(t).decision
           /\ (r.decision = e.decision) <=>
                  (NumGt(t.amount, ReviewAmount) \/ ~MissingField(t))
           /\ r.decision # e.decision =>
                  r.decision = "APPROVE" /\ e.decision = "REVIEW"
           /\ Len(r.reason) = Len(e.reasons)
           /\ \A j \in 1..Len(r.reason) : r.reason[j][1] = "[rules] "
           /\ MissingField(t) =>
                  \E j \in 1..Len(r.reason) :
                      r.reason[j][2] \in {"Missing transaction location",
                                          "Missing device identifier"}

C13_Witness ==
    /\ handler.resp.set
    /\ handler.txn.location = None
    /\ handler.resp.decision = "APPROVE"
    /\ RunRules(handler.txn).decision = "REVIEW"

\* C19 as stated: authorize_transaction is invoked, and a response built,
\* only for a payload that holds every required field and whose amount is
\* not <= 0; the transaction that reaches authorize_transaction has
\* amount > 0; and the "Invalid transaction amount (<= 0)" reason is never
\* returned through the handler.
C19_ValidationPrecedesAuthorization ==
    /\ (handler.authorized \/ handler.resp.set) =>
           /\ \A j \in 1..Len(REQUIRED_FIELDS) :
                  REQUIRED_FIELDS[j] \in handler.raw.present
           /\ ~NumLe(handler.raw.amount, 0)
    /\ handler.pc \in {"authorize", "respond"} =>
           NumGt(handler.txn.amount, 0)
    /\ \A j \in 1..Len(handler.reason) :
           handler.reason[j] # Prefixed("Invalid transaction amount (<= 0)")

-----------------------------------------------------------------------------
(* Concurrent calls of run_rules (SpecConc): every call has a frame of its   *)
(* own with the locals of l.206-235; the module-level ALL_RULES is the only  *)
(* object the frames have in common.  A step is one rule call or one loop    *)
(* iteration, and the steps of the calls interleave freely.                  *)

NCalls == 2

ConcTransactions ==
    {[isNone |-> FALSE, amount |-> Num(0), location |-> "IN",
      device_id |-> "device_abc"],
     [isNone |-> FALSE, amount |-> Num(500), location |-> "IN",
      device_id |-> "device_abc"],
     [isNone |-> FALSE, amount |-> Num(500), location |-> None,
      device_id |-> None],
     [isNone |-> FALSE, amount |-> PyStr, location |-> "IN",
      device_id |-> "device_abc"]}

\* a thread that is not inside run_rules
IdleFrame ==
    [pc |-> "idle", txn |-> NoSeen.txn, results |-> <<>>, k |-> 0,
     final_decision |-> Unbound, final_reasons |-> <<>>, best_score |-> 0,
     best_severity |-> 0, fault |-> NoExc, ret |-> NoRet,
     overlapped |-> FALSE]

InFlight(c) == frames[c].pc \in {"eval", "collect", "decide", "done"}

\* another call is inside run_rules while call c takes a step
Overlaps(c) ==
    frames[c].overlapped \/ \E d \in DOMAIN frames : d # c /\ InFlight(d)

\* thread c calls run_rules(t)
ConcCall(c, t) ==
    /\ ~InFlight(c)
    /\ frames' = [frames EXCEPT ![c] =
                     [IdleFrame EXCEPT !.pc = "eval", !.txn = t]]
    /\ UNCHANGED <<ALL_RULES, pc, txn, invoked, results, k, final_decision,
                   final_reasons, best_score, best_severity, adopted, fault,
                   ret, seen, handler>>

\* l.206 in call c: the next rule is applied
ConcEvalRule(c) ==
    /\ frames[c].pc = "eval"
    /\ Len(frames[c].results) < Len(ALL_RULES)
    /\ LET f == frames[c]
           rule == ALL_RULES[Len(f.results) + 1]
           exc == RuleRaises(rule, f.txn)
       IN frames' = [frames EXCEPT ![c] =
             IF exc # NoExc
             THEN [f EXCEPT !.pc = "raised", !.fault = exc,
                            !.overlapped = Overlaps(c)]
             ELSE [f EXCEPT !.results = Append(f.results,
                                               RuleApply(rule, f.txn)),
                            !.overlapped = Overlaps(c)]]
    /\ UNCHANGED <<ALL_RULES, pc, txn, invoked, results, k, final_decision,
                   final_reasons, best_score, best_severity, adopted, fault,
                   ret, seen, handler>>

\* l.209-210 in call c
ConcInitLocals(c) ==
    /\ frames[c].pc = "eval"
    /\ Len(frames[c].results) = Len(ALL_RULES)
    /\ frames' = [frames EXCEPT ![c] =
                     [frames[c] EXCEPT !.pc = "collect",
                                       !.final_decision = "APPROVE",
                                       !.final_reasons = <<>>,
                                       !.k = 1,
                                       !.overlapped = Overlaps(c)]]
    /\ UNCHANGED <<ALL_RULES, pc, txn, invoked, results, k, final_decision,
                   final_reasons, best_score, best_severity, adopted, fault,
                   ret, seen, handler>>

\* mutant: final_reasons is one module-level list that every call extends
ConcCollectReasons_shared(c) ==
    /\ frames[c].pc = "collect"
    /\ frames[c].k <= Len(frames[c].results)
    /\ final_reasons' = CollectStep(final_reasons,
                                    frames[c].results[frames[c].k])
    /\ frames' = [frames EXCEPT ![c] =
                     [frames[c] EXCEPT !.final_reasons = final_reasons',
                                       !.k = frames[c].k + 1,
                                       !.overlapped = Overlaps(c)]]
    /\ UNCHANGED <<ALL_RULES, pc, txn, invoked, results, k, final_decision,
                   best_score, best_severity, adopted, fault,
                   ret, seen, handler>>

\* one iteration of the loop of l.213-215 in call c
ConcCollectReasons(c) ==
    /\ frames[c].pc = "collect"
    /\ frames[c].k <= Len(frames[c].results)
    /\ LET f == frames[c]
       IN frames' = [frames EXCEPT ![c] =
             [f EXCEPT !.final_reasons =
                           CollectStep(f.final_reasons, f.results[f.k]),
                       !.k = f.k + 1,
                       !.overlapped = Overlaps(c)]]
    /\ UNCHANGED <<ALL_RULES, pc, txn, invoked, results, k, final_decision,
                   final_reasons, best_score, best_severity, adopted, fault,
                   ret, seen, handler>>

\* l.218-220 in call c
ConcInitBest(c) ==
    /\ frames[c].pc = "collect"
    /\ frames[c].k > Len(frames[c].results)
    /\ LET f == frames[c]
       IN frames' = [frames EXCEPT ![c] =
             [f EXCEPT !.pc = "decide",
                       !.best_score = decision_priority[f.final_decision],
                       !.best_severity = -1,
                       !.k = 1,
                       !.overlapped = Overlaps(c)]]
    /\ UNCHANGED <<ALL_RULES, pc, txn, invoked, results, k, final_decision,
                   final_reasons, best_score, best_severity, adopted, fault,
                   ret, seen, handler>>

\* one iteration of the loop of l.222-232 in call c
ConcDecide(c) ==
    /\ frames[c].pc = "decide"
    /\ frames[c].k <= Len(frames[c].results)
    /\ LET f == frames[c]
           b == DecideStep([final_decision |-> f.final_decision,
                            best_score |-> f.best_score,
                            best_severity |-> f.best_severity,
                            adopted |-> 0], f.results[f.k], f.k)
       IN frames' = [frames EXCEPT ![c] =
             [f EXCEPT !.final_decision = b.final_decision,
                       !.best_score = b.best_score,
                       !.best_severity = b.best_severity,
                       !.k = f.k + 1,
                       !.overlapped = Overlaps(c)]]
    /\ UNCHANGED <<ALL_RULES, pc, txn, invoked, results, k, final_decision,
                   final_reasons, best_score, best_severity, adopted, fault,
                   ret, seen, handler>>

\* l.234-235 in call c
ConcAppendDefault(c) ==
    /\ frames[c].pc = "decide"
    /\ frames[c].k > Len(frames[c].results)
    /\ frames' = [frames EXCEPT ![c] =
                     [frames[c] EXCEPT
                        !.pc = "done",
                        !.final_reasons = WithDefault(frames[c].final_reasons),
                        !.overlapped = Overlaps(c)]]
    /\ UNCHANGED <<ALL_RULES, pc, txn, invoked, results, k, final_decision,
                   final_reasons, best_score, best_severity, adopted, fault,
                   ret, seen, handler>>

\* l.237 in call c: the caller receives the tuple and the frame is dropped
ConcReturn(c) ==
    /\ frames[c].pc = "done"
    /\ LET f == frames[c]
       IN frames' = [frames EXCEPT ![c] =
             [IdleFrame EXCEPT !.pc = "returned", !.txn = f.txn,
                               !.ret = [set |-> TRUE,
                                        decision |-> f.final_decision,
                                        reasons |-> f.final_reasons],
                               !.overlapped = Overlaps(c)]]
    /\ UNCHANGED <<ALL_RULES, pc, txn, invoked, results, k, final_decision,
                   final_reasons, best_score, best_severity, adopted, fault,
                   ret, seen, handler>>

InitConc ==
    /\ ALL_RULES = BuiltinRules
    /\ pc = "idle"
    /\ txn = NoSeen.txn
    /\ invoked = <<>>
    /\ results = <<>>
    /\ LocalsUnbound
    /\ fault = NoExc
    /\ ret = NoRet
    /\ seen = NoSeen
    /\ handler = HandlerIdle
    /\ frames = [c \in 1..NCalls |-> IdleFrame]

NextConc ==
    \/ \E c \in 1..NCalls, t \in ConcTransactions : ConcCall(c, t)
    \/ \E c \in 1..NCalls : ConcEvalRule(c)
    \/ \E c \in 1..NCalls : ConcInitLocals(c)
    \/ \E c \in 1..NCalls : ConcCollectReasons(c)
    \/ \E c \in 1..NCalls : ConcInitBest(c)
    \/ \E c \in 1..NCalls : ConcDecide(c)
    \/ \E c \in 1..NCalls : ConcAppendDefault(c)
    \/ \E c \in 1..NCalls : ConcReturn(c)

SpecConc == InitConc /\ [][NextConc]_vars

\* the first exception a call of run_rules(t) alone ends with, if any
FirstFault(t) ==
    IF \E j \in 1..Len(BuiltinRules) : RuleRaises(BuiltinRules[j], t) # NoExc
    THEN RuleRaises(BuiltinRules[
             CHOOSE j \in 1..Len(BuiltinRules) :
                 /\ RuleRaises(BuiltinRules[j], t) # NoExc
                 /\ \A i \in 1..(j - 1) :
                        RuleRaises(BuiltinRules[i], t) = NoExc], t)
    ELSE NoExc

\* C14: under every interleaving of the steps of the concurrent calls, a call
\* that returns hands back exactly the decision and the reason list that
\* run_rules computes for its transaction alone, and a call ends with an
\* exception exactly when run_rules alone does, with the same exception.
C14_CallsIsolated ==
    \A c \in DOMAIN frames :
        LET f == frames[c]
        IN /\ f.pc = "returned" =>
                  /\ FirstFault(f.txn) = NoExc
                  /\ f.ret.decision = RunRules(f.txn).decision
                  /\ f.ret.reasons = RunRules(f.txn).reasons
           /\ f.pc = "raised" =>
                  f.fault # NoExc /\ f.fault = FirstFault(f.txn)

C14_Witness ==
    /\ NCalls >= 2
    /\ frames[1].pc = "returned" /\ frames[1].overlapped
    /\ frames[2].pc = "returned" /\ frames[2].overlapped
    /\ frames[1].txn # frames[2].txn
    /\ frames[1].ret.decision = "DECLINE"
    /\ frames[2].ret.reasons = <<MissingLocationText, MissingDeviceText>>

====
